---- MODULE Spec2Model ----
(***************************************************************************)
(* A model of the Evolution simulation engine: src/src/simulation.py       *)
(* (Simulation.update, the tick), src/src/world.py (the spatial grid) and  *)
(* src/src/creatures/base_creature.py (act, reproduce, on_collide).        *)
(*                                                                         *)
(* Numbers.  The program computes with floats; the model computes with     *)
(* integers in fixed point:                                                *)
(*   - a length of 1.0 (a pixel) is PX model units, so the 0.01 of the     *)
(*     coincident-centres fallback is 2 units and half of it is 1 unit;    *)
(*   - a controller output of 1.0 is NN_ONE units;                         *)
(*   - energies are integers; fractions of max_energy are tenths, and      *)
(*     steal_efficiency is a pair <<numerator, denominator>>;              *)
(*   - a quotient is truncated toward zero (TDiv), except the energy a     *)
(*     thief gains, which is floored so that its sign is kept.             *)
(* Identity.  creatures and food are the Python lists; an object is named  *)
(* by its index in its list.  The lists change only at the end of the      *)
(* feeding pass (food), of the reproduction pass and in the death pass     *)
(* (creatures), all after the last grid query of a tick, so an index is    *)
(* the same object from update_grid to the last query of the tick.         *)
(***************************************************************************)
EXTENDS Integers, Sequences, FiniteSets, TLC

\* ------------------------------------------------------------------ bounds
\* Ticks the model runs (tick_counter is unbounded in the program).
MaxTicks == 3

\* ------------------------------------------------------- fixed-point units
PX == 200
NN_ONE == 100

TDiv(a, b) == IF a >= 0 THEN a \div b ELSE -((-a) \div b)

Min(a, b) == IF a < b THEN a ELSE b

Abs(a) == IF a < 0 THEN -a ELSE a

\* A local variable of the program holds a value that is computed once and
\* then read: Once({e(v) : v \in {x}}) is e(x), with x computed once.
Once(S) == CHOOSE r \in S : TRUE

RECURSIVE IsqrtIter(_, _, _)
IsqrtIter(n, lo, hi) ==
    IF lo >= hi THEN lo
    ELSE Once({IF mid * mid <= n THEN IsqrtIter(n, mid, hi)
                                 ELSE IsqrtIter(n, lo, mid - 1) :
                 mid \in {(lo + hi + 1) \div 2}})

\* math.hypot, rounded down to a whole unit (to 16 units where a leg is
\* longer than 30000 units, whose square a 32-bit integer cannot hold)
Hypot(dx, dy) ==
    IF Abs(dx) <= 30000 /\ Abs(dy) <= 30000
    THEN LET n == dx * dx + dy * dy IN IsqrtIter(n, 0, Min(n, 46340))
    ELSE LET sx == TDiv(dx, 16)
             sy == TDiv(dy, 16)
             n == sx * sx + sy * sy
         IN  16 * IsqrtIter(n, 0, Min(n, 46340))

\* math.hypot(dx, dy) < r, exactly (r is at most a few radii)
HypotLess(dx, dy, r) == Abs(dx) < r /\ Abs(dy) < r /\ dx * dx + dy * dy < r * r

\* --------------------------------------------------------- configuration
\* Simulation(width, height) and World(cell_size): main.py passes
\* config.SCREEN_WIDTH and config.SCREEN_HEIGHT.
SCREEN_WIDTH == 1200 * PX
SCREEN_HEIGHT == 800 * PX
WORLD_GRID_CELL_SIZE == 20 * PX
FOOD_ENERGY == 100
FOOD_RADIUS == 5 * PX

\* config.FOOD_SPAWN_INTERVAL and config.FOOD_SPAWN_AMOUNT, the start values
\* of the two spawn knobs (simulation.py:29-30).
FOOD_SPAWN_INTERVAL == 1
FOOD_SPAWN_AMOUNT == 1
\* config.INITIAL_FOOD_COUNT, scaled down to a checkable world.
INITIAL_FOOD_COUNT == 2
\* config.GRAPH_UPDATE_RATE and config.GRAPH_MAX_POINTS, scaled down: the
\* population is logged every second tick and one point is kept.
GRAPH_UPDATE_RATE == 2
GRAPH_MAX_POINTS == 1

\* blueprints.SPECIES_BLUEPRINTS, scaled to a world TLC can enumerate: one
\* agent per species, lifespans of a few ticks and a metabolism that starves
\* an agent within MaxTicks.  lifespan_ticks and population_cap are read by
\* BaseCreature.__init__ (lines 43-44); the herbivore starts under its cap,
\* the scavenger at its cap.  Fields the tick never reads (color, fov) are left
\* out.  sense_radius is scaled with the cell size, nn_layer_sizes to genomes
\* of 3 and 4 genes; mutation_rate is in hundredths, mutation_amount (and a
\* gene) in units of 1/NN_ONE.  reproduction_threshold and reproduction_cost are tenths of
\* max_energy; steal_efficiency is <<numerator, denominator>>.
SPECIES_BLUEPRINTS ==
    [herbivore_blue |->
        [species_name |-> "herbivore_blue", count |-> 1, radius |-> 8 * PX,
         max_energy |-> 250, reproduction_threshold |-> 6,
         reproduction_cost |-> 5, metabolic_rate |-> 60, move_cost |-> 10,
         max_speed |-> 1 * PX, sense_radius |-> 15 * PX,
         nn_layer_sizes |-> <<2, 1>>, mutation_rate |-> 5, mutation_amount |-> 10,
         collision_interactions |-> << >>,
         steal_amount |-> 0, steal_efficiency |-> <<0, 1>>,
         min_offspring |-> 1, max_offspring |-> 2,
         lifespan_ticks |-> 3, population_cap |-> 2],
     scavenger_red |->
        [species_name |-> "scavenger_red", count |-> 1, radius |-> 8 * PX,
         max_energy |-> 150, reproduction_threshold |-> 9,
         reproduction_cost |-> 2, metabolic_rate |-> 20, move_cost |-> 3,
         max_speed |-> (13 * PX) \div 10, sense_radius |-> 20 * PX,
         nn_layer_sizes |-> <<1, 1, 1>>, mutation_rate |-> 10, mutation_amount |-> 10,
         collision_interactions |-> ("herbivore_blue" :> "steal_energy"),
         steal_amount |-> 30, steal_efficiency |-> <<4, 5>>,
         min_offspring |-> 1, max_offspring |-> 1,
         lifespan_ticks |-> 2, population_cap |-> 1]]

\* A second descriptor table: the herbivore's reproduction costs more energy
\* than its reproduction threshold asks for.
COSTLY_BLUEPRINTS ==
    [SPECIES_BLUEPRINTS EXCEPT !.herbivore_blue.reproduction_cost = 8]

BLUEPRINT_TABLES == {SPECIES_BLUEPRINTS, COSTLY_BLUEPRINTS}

\* SPECIES_BLUEPRINTS.values() in dict order
SPECIES_ORDER == <<"herbivore_blue", "scavenger_red">>

\* random.randint(0, width), random.randint(0, height): the places the model
\* draws from.  The two creature spots are 16 px apart (exactly two radii,
\* so whether two agents collide depends on how they move) on either side of
\* a cell border; two agents may also start on the same spot.  The first food
\* spot is within reach of both creature spots, the second of the first only.
CREATURE_SPOTS == {<<92 * PX, 50 * PX>>, <<108 * PX, 50 * PX>>}
FOOD_SPOTS == {<<99 * PX, 50 * PX>>, <<80 * PX, 50 * PX>>}

\* What the controller may put out (think): <<dirX, dirY, speedIntent,
\* actionIntent>> in units of 1/NN_ONE.  The genome is random, so the output
\* is an input of the model.
NN_OUTPUTS == {<<NN_ONE, 0, NN_ONE, 0>>, <<0, 0, 0, 0>>}

\* random.uniform(0, 2*pi) in reproduce, as <<cos, sin>>
SPAWN_ANGLES == {<<1, 0>>, <<0, -1>>}

VARIABLES
    blueprints,       \* the species descriptor table the run was started with
    creatures,        \* world.creatures
    food,             \* world.food
    grid,             \* world.grid: cell -> [creatures, food] (indices)
    tick_counter,     \* Simulation.tick_counter
    food_spawn_interval, food_spawn_amount,   \* the two spawn knobs
    pc,               \* where update() is
    i,                \* index of the creature the current loop is at
    j,                \* index into local_creatures (collision pass)
    neighbors,        \* what get_neighbors returned last: [creatures, food] (indices)
    checked_pairs,    \* update(): checked_pairs
    eaten_food,       \* update(): eaten_food
    species_counts,   \* update(): species_counts
    newborns,         \* update(): newborns
    population_data,  \* Simulation.population_data: species -> history
    genome,           \* one agent's genome (BaseCreature.genome), or the
                      \* vector handed to set_genome
    child_genome,     \* reproduce(): mutated_genome, the child's genome
    nn_params,        \* one controller's parameter tensors, flattened, in
                      \* parameters() order
    nn_raised,        \* whether the last set_genome call raised
    arrays,           \* the numpy arrays reproduce() works on, by identity
    genome_ref,       \* which array the genome attribute of the parent (1) and
                      \* of each of its children (2, 3, ...) refers to
    mutated_genome    \* reproduce(): the array mutated_genome refers to

vars == <<blueprints, creatures, food, grid, tick_counter, food_spawn_interval,
          food_spawn_amount, pc, i, j, neighbors, checked_pairs,
          eaten_food, species_counts, newborns, population_data,
          genome, child_genome, nn_params, nn_raised,
          arrays, genome_ref, mutated_genome>>

\* The tick works on the agents' positions and energies; what a controller
\* puts out is an input of the tick (NN_OUTPUTS), and the genome and the
\* controller's parameters are modelled on one agent, apart from the tick.
controller_unchanged ==
    UNCHANGED <<genome, child_genome, nn_params, nn_raised,
                arrays, genome_ref, mutated_genome>>

\* no arrays under study
NoArrays ==
    /\ arrays = << >>
    /\ genome_ref = << >>
    /\ mutated_genome = 0

arrays_unchanged == UNCHANGED <<arrays, genome_ref, mutated_genome>>

\* no controller under study
NoController ==
    /\ genome = << >>
    /\ child_genome = << >>
    /\ nn_params = << >>
    /\ nn_raised = FALSE
    /\ NoArrays

\* ------------------------------------------------- BaseCreature attributes
Cfg(c) == blueprints[c.species]
Radius(c) == Cfg(c).radius
MaxEnergy(c) == Cfg(c).max_energy
ReproductionThreshold(c) == TDiv(Cfg(c).max_energy * Cfg(c).reproduction_threshold, 10)
ReproductionCost(c) == TDiv(Cfg(c).max_energy * Cfg(c).reproduction_cost, 10)

\* BaseCreature.__init__
BaseCreature(x0, y0, species) ==
    [species |-> species, x |-> x0, y |-> y0, vx |-> 0, vy |-> 0,
     energy |-> TDiv(blueprints[species].max_energy, 2), age |-> 0,
     nn_inputs |-> << >>, nn_outputs |-> << >>]

\* Food.__init__
Food(x0, y0, e) == [x |-> x0, y |-> y0, energy |-> e, radius |-> FOOD_RADIUS]

\* --------------------------------------------------------------- World
\* World._get_cell_coords: int(x // cell_size), int(y // cell_size)
GetCellCoords(x, y) == <<x \div WORLD_GRID_CELL_SIZE, y \div WORLD_GRID_CELL_SIZE>>

\* The indices k..Len(seq), in order, of the entities of seq filed under cell
RECURSIVE IndicesInCell(_, _, _)
IndicesInCell(seq, cell, k) ==
    IF k > Len(seq) THEN << >>
    ELSE (IF GetCellCoords(seq[k].x, seq[k].y) = cell THEN <<k>> ELSE << >>)
         \o IndicesInCell(seq, cell, k + 1)

\* World.update_grid: the grid rebuilt from the current positions
UpdateGrid(cs, fs) ==
    LET cells == {GetCellCoords(cs[k].x, cs[k].y) : k \in 1..Len(cs)}
                 \cup {GetCellCoords(fs[k].x, fs[k].y) : k \in 1..Len(fs)}
    IN  [cell \in cells |-> [creatures |-> IndicesInCell(cs, cell, 1),
                             food |-> IndicesInCell(fs, cell, 1)]]

\* line 38: neighbors = {'creatures': [], 'food': []}
NO_NEIGHBORS == [creatures |-> << >>, food |-> << >>]

\* World.get_neighbors, the inner loop (line 44): the cells of column dx from
\* row dy on, their contents concatenated
RECURSIVE CollectColumn(_, _, _, _, _)
CollectColumn(g, center, s, dx, dy) ==
    IF dy > s THEN NO_NEIGHBORS
    ELSE LET cell == <<center[1] + dx, center[2] + dy>>
         IN  Once({IF cell \in DOMAIN g
                   THEN [creatures |-> g[cell].creatures \o rest.creatures,
                         food |-> g[cell].food \o rest.food]
                   ELSE rest :
                     rest \in {CollectColumn(g, center, s, dx, dy + 1)}})

\* World.get_neighbors, the outer loop (line 43): the columns from dx on
RECURSIVE CollectCells(_, _, _, _)
CollectCells(g, center, s, dx) ==
    IF dx > s THEN NO_NEIGHBORS
    ELSE Once({[creatures |-> column.creatures \o rest.creatures,
                food |-> column.food \o rest.food] :
                 column \in {CollectColumn(g, center, s, dx, -s)},
                 rest \in {CollectCells(g, center, s, dx + 1)}})

\* get_neighbors without the "+ 1" of line 41
GetNeighbors_NoExtraCell(g, x, y, radius) ==
    LET s == radius \div WORLD_GRID_CELL_SIZE IN CollectCells(g, GetCellCoords(x, y), s, -s)

GetNeighbors(g, x, y, radius) ==
    LET search_radius_in_cells == (radius \div WORLD_GRID_CELL_SIZE) + 1
    IN  CollectCells(g, GetCellCoords(x, y), search_radius_in_cells, -search_radius_in_cells)

\* World.handle_boundaries
HandleBoundaries(c) == [c EXCEPT !.x = c.x % SCREEN_WIDTH, !.y = c.y % SCREEN_HEIGHT]

\* ---------------------------------------------------------- BaseCreature
\* sense, lines 60-64 and 67-72: the candidate of local (indices into seq,
\* from position k on) nearest to c, `skip` left out; [item, dist] is the
\* nearest so far (item 0, dist -1: None, inf).  A later candidate replaces
\* the nearest only if it is strictly nearer.
RECURSIVE Nearest(_, _, _, _, _, _)
Nearest(c, seq, local, skip, k, best) ==
    IF k > Len(local) THEN best
    ELSE LET e == seq[local[k]]
             dist == Hypot(c.x - e.x, c.y - e.y)
         IN  IF local[k] # skip /\ (best.item = 0 \/ dist < best.dist)
             THEN Nearest(c, seq, local, skip, k + 1, [item |-> local[k], dist |-> dist])
             ELSE Nearest(c, seq, local, skip, k + 1, best)

\* BaseCreature.sense for cs[self], on grid g: the 7 inputs, in units of
\* 1/NN_ONE
Sense(cs, fs, g, self) ==
    LET c == cs[self]
        R == Cfg(c).sense_radius
        own_energy_normalized == TDiv(c.energy * NN_ONE, MaxEnergy(c))
        none == [item |-> 0, dist |-> -1]
        Inputs(nf, nc) ==
            LET nearest_food == fs[nf.item]
                nearest_creature == cs[nc.item]
            IN  <<own_energy_normalized,
                  IF nf.item # 0 THEN TDiv((nearest_food.x - c.x) * NN_ONE, R) ELSE 0,
                  IF nf.item # 0 THEN TDiv((nearest_food.y - c.y) * NN_ONE, R) ELSE 0,
                  IF nf.item # 0 THEN TDiv(nf.dist * NN_ONE, R) ELSE 0,
                  IF nc.item # 0 THEN TDiv((nearest_creature.x - c.x) * NN_ONE, R) ELSE 0,
                  IF nc.item # 0 THEN TDiv((nearest_creature.y - c.y) * NN_ONE, R) ELSE 0,
                  IF nc.item # 0 THEN TDiv(Cfg(nearest_creature).steal_amount * NN_ONE, 50)
                                 ELSE 0>>
    IN  Once({Once({Inputs(nf, nc) :
                      nf \in {Nearest(c, fs, local_objects.food, 0, 1, none)},
                      nc \in {Nearest(c, cs, local_objects.creatures, self, 1, none)}}) :
                local_objects \in {GetNeighbors(g, c.x, c.y, R)}})

\* nn.Tanh (activation_func) on x >= 0, in units of 1/NN_ONE = 0.01: tanh at
\* 0, 0.5, 1, 1.5, 2 and 3 (0, 0.46, 0.76, 0.91, 0.96, 0.99), straight
\* lines between them, and 1.0 from 9 on, where float32 rounds tanh to 1
TanhPos(x) ==
    IF x >= 900 THEN 100
    ELSE IF x >= 300 THEN 99
    ELSE IF x >= 200 THEN 96 + ((x - 200) * 3) \div 100
    ELSE IF x >= 150 THEN 91 + ((x - 150) * 5) \div 50
    ELSE IF x >= 100 THEN 76 + ((x - 100) * 15) \div 50
    ELSE IF x >= 50 THEN 46 + ((x - 50) * 30) \div 50
    ELSE (x * 46) \div 50

\* nn.Tanh: an odd function
Tanh(x) == IF x >= 0 THEN TanhPos(x) ELSE -TanhPos(-x)

\* the sum of weight[offset + m] * x[m] for m = k..Len(x)
RECURSIVE Dot(_, _, _, _)
Dot(weight, x, offset, k) ==
    IF k > Len(x) THEN 0 ELSE weight[offset + k] * x[k] + Dot(weight, x, offset, k + 1)

\* nn.Linear: weight has the shape (out_features, in_features), flattened row
\* by row; output o is the o-th row times x, plus bias[o]
Linear(weight, bias, x) ==
    [o \in 1..Len(bias) |-> TDiv(Dot(weight, x, (o - 1) * Len(x), 1), NN_ONE) + bias[o]]

\* NeuralNetwork.forward from layer k on: params holds weight and bias of
\* layer k at 2k - 1 and 2k; the activation is applied to all but the last
\* layer (y is bound to the layer's output, so that it is computed once)
RECURSIVE ForwardFrom(_, _, _)
ForwardFrom(params, x, k) ==
    IF 2 * k > Len(params) THEN x
    ELSE Once({ForwardFrom(params,
                           IF 2 * k < Len(params)
                           THEN [o \in 1..Len(y) |-> Tanh(y[o])] ELSE y,
                           k + 1) :
                 y \in {Linear(params[2 * k - 1], params[2 * k], x)}})

\* NeuralNetwork.forward
Forward(params, x) == ForwardFrom(params, x, 1)

\* BaseCreature.think, with the parameters of the agent's controller
Think(c, params) == [c EXCEPT !.nn_outputs = Forward(params, c.nn_inputs)]

\* act with a use for the action intent: an intent above 0.5 costs one unit
\* of energy
Act_IntentCostsEnergy(c, out) ==
    LET max_speed == Cfg(c).max_speed
        min_speed == TDiv(max_speed, 10)
        desired_speed == min_speed + TDiv((out[3] + NN_ONE) * (max_speed - min_speed), 2 * NN_ONE)
        direction_magnitude == Hypot(out[1] * 100, out[2] * 100)
        moving == direction_magnitude > NN_ONE
        nvx == IF moving THEN TDiv(out[1] * 100 * desired_speed, direction_magnitude)
                         ELSE TDiv(c.vx * 9, 10)
        nvy == IF moving THEN TDiv(out[2] * 100 * desired_speed, direction_magnitude)
                         ELSE TDiv(c.vy * 9, 10)
        move_energy_loss == TDiv(Cfg(c).move_cost * (nvx * nvx + nvy * nvy), max_speed * max_speed)
        action_cost == IF out[4] * 2 > NN_ONE THEN 1 ELSE 0
    IN  [c EXCEPT !.vx = nvx, !.vy = nvy, !.x = c.x + nvx, !.y = c.y + nvy,
                  !.energy = c.energy - (Cfg(c).metabolic_rate + move_energy_loss + action_cost),
                  !.age = c.age + 1]

\* BaseCreature.act, from the controller's outputs.  The direction's
\* magnitude is computed in hundredths of an output unit (0.0001), in which
\* the 0.01 of line 118 is NN_ONE.
Act(c, out) ==
    LET max_speed == Cfg(c).max_speed
        min_speed == TDiv(max_speed, 10)
        desired_speed == min_speed + TDiv((out[3] + NN_ONE) * (max_speed - min_speed), 2 * NN_ONE)
        direction_magnitude == Hypot(out[1] * 100, out[2] * 100)
        moving == direction_magnitude > NN_ONE
        nvx == IF moving THEN TDiv(out[1] * 100 * desired_speed, direction_magnitude)
                         ELSE TDiv(c.vx * 9, 10)
        nvy == IF moving THEN TDiv(out[2] * 100 * desired_speed, direction_magnitude)
                         ELSE TDiv(c.vy * 9, 10)
        move_energy_loss == TDiv(Cfg(c).move_cost * (nvx * nvx + nvy * nvy), max_speed * max_speed)
    IN  [c EXCEPT !.vx = nvx, !.vy = nvy, !.x = c.x + nvx, !.y = c.y + nvy,
                  !.energy = c.energy - (Cfg(c).metabolic_rate + move_energy_loss),
                  !.age = c.age + 1]

\* is_alive without the age test
IsAlive_EnergyOnly(c) == c.energy > 0

\* is_alive with "age <= lifespan" for "age < lifespan"
IsAlive_AgeInclusive(c) == c.energy > 0 /\ c.age <= Cfg(c).lifespan_ticks

\* BaseCreature.is_alive
IsAlive(c) == c.energy > 0 /\ c.age < Cfg(c).lifespan_ticks

\* BaseCreature._handle_physical_collision: <<self, other>> afterwards
HandlePhysicalCollision(self, other) ==
    LET dx0 == self.x - other.x
        dy == self.y - other.y
        d0 == Hypot(dx0, dy)
        distance == IF d0 = 0 THEN PX \div 100 ELSE d0
        dx == IF d0 = 0 THEN PX \div 100 ELSE dx0
        overlap == (Radius(self) + Radius(other)) - distance
        px == TDiv(dx * overlap, 2 * distance)
        py == TDiv(dy * overlap, 2 * distance)
    IN  IF overlap > 0
        THEN <<[self EXCEPT !.x = self.x + px, !.y = self.y + py],
               [other EXCEPT !.x = other.x - px, !.y = other.y - py]>>
        ELSE <<self, other>>

\* _steal_energy with the efficiency applied to what the target loses too
StealEnergy_DiscountsVictim(self, target) ==
    LET stolen_energy == Min(target.energy, Cfg(self).steal_amount)
        eff == Cfg(self).steal_efficiency
        moved == (stolen_energy * eff[1]) \div eff[2]
        gained == self.energy + moved
    IN  <<[self EXCEPT !.energy = IF gained > MaxEnergy(self) THEN MaxEnergy(self) ELSE gained],
          [target EXCEPT !.energy = target.energy - moved]>>

\* BaseCreature._steal_energy: <<self, target>> afterwards
StealEnergy(self, target) ==
    LET stolen_energy == Min(target.energy, Cfg(self).steal_amount)
        eff == Cfg(self).steal_efficiency
        gained == self.energy + ((stolen_energy * eff[1]) \div eff[2])
    IN  <<[self EXCEPT !.energy = IF gained > MaxEnergy(self) THEN MaxEnergy(self) ELSE gained],
          [target EXCEPT !.energy = target.energy - stolen_energy]>>

\* on_collide with the roles confused: the interaction is looked up in the
\* other creature's table and carried out by the other creature
OnCollide_RolesSwapped(self, other) ==
    LET p == HandlePhysicalCollision(self, other)
        table == Cfg(other).collision_interactions
    IN  IF self.species \in DOMAIN table /\ table[self.species] = "steal_energy"
        THEN LET r == StealEnergy(p[2], p[1]) IN <<r[2], r[1]>>
        ELSE p

\* BaseCreature.on_collide: <<self, other_creature>> afterwards
OnCollide(self, other) ==
    LET p == HandlePhysicalCollision(self, other)
        table == Cfg(self).collision_interactions
    IN  IF other.species \in DOMAIN table /\ table[other.species] = "steal_energy"
        THEN StealEnergy(p[1], p[2])
        ELSE p

\* the offspring reproduce() builds (lines 154-172)
Offspring(c, angle) ==
    LET child == BaseCreature(c.x, c.y, c.species)
        spawn_dist == Radius(c) + Radius(child) + 1 * PX
    IN  [child EXCEPT !.x = c.x + spawn_dist * angle[1], !.y = c.y + spawn_dist * angle[2]]

\* reproduce charging the cost once per offspring (the earlier policy)
Reproduce_CostPerOffspring(c, num_offspring, angles) ==
    IF c.energy >= ReproductionCost(c)
    THEN [children |-> [k \in 1..num_offspring |-> Offspring(c, angles[k])],
          cost |-> num_offspring * ReproductionCost(c)]
    ELSE [children |-> << >>, cost |-> 0]

\* reproduce without the energy test of line 148
Reproduce_NoEnergyCheck(c, num_offspring, angles) ==
    [children |-> [k \in 1..num_offspring |-> Offspring(c, angles[k])],
     cost |-> ReproductionCost(c)]

\* reproduce looping once too often (range(num_offspring + 1))
Reproduce_ExtraOffspring(c, num_offspring, angles) ==
    IF c.energy >= ReproductionCost(c)
    THEN [children |-> [k \in 1..(num_offspring + 1) |-> Offspring(c, angles[1])],
          cost |-> ReproductionCost(c)]
    ELSE [children |-> << >>, cost |-> 0]

\* BaseCreature.reproduce with the draws it makes: num_offspring and one
\* spawn angle per child.  [children, cost]
Reproduce(c, num_offspring, angles) ==
    IF c.energy >= ReproductionCost(c)
    THEN [children |-> [k \in 1..num_offspring |-> Offspring(c, angles[k])],
          cost |-> ReproductionCost(c)]
    ELSE [children |-> << >>, cost |-> 0]

\* ------------------------------------------------------------ Simulation
InSeq(x, seq) == \E k \in 1..Len(seq) : seq[k] = x

\* The species of the agents _populate_world creates, in creation order
RECURSIVE InitialSpecies(_, _)
InitialSpecies(table, k) ==
    IF k > Len(SPECIES_ORDER) THEN << >>
    ELSE [n \in 1..table[SPECIES_ORDER[k]].count |-> SPECIES_ORDER[k]]
         \o InitialSpecies(table, k + 1)

\* Simulation.spawn_food: `spots` are the places drawn
SpawnFood(fs, spots) ==
    fs \o [k \in 1..Len(spots) |-> Food(spots[k][1], spots[k][2], FOOD_ENERGY)]

\* Simulation.__init__ and _populate_world
Init ==
    /\ blueprints \in BLUEPRINT_TABLES
    /\ LET species == InitialSpecies(blueprints, 1)
       IN  \E spots \in [1..Len(species) -> CREATURE_SPOTS] :
               creatures = [k \in 1..Len(species) |->
                               BaseCreature(spots[k][1], spots[k][2], species[k])]
    /\ \E spots \in [1..INITIAL_FOOD_COUNT -> FOOD_SPOTS] : food = SpawnFood(<< >>, spots)
    /\ grid = << >>
    /\ tick_counter = 0
    /\ food_spawn_interval = FOOD_SPAWN_INTERVAL
    /\ food_spawn_amount = FOOD_SPAWN_AMOUNT
    /\ pc = "idle"
    /\ i = 0
    /\ j = 0
    /\ neighbors = NO_NEIGHBORS
    /\ checked_pairs = {}
    /\ eaten_food = << >>
    /\ species_counts = << >>
    /\ newborns = << >>
    /\ population_data = << >>
    /\ NoController

world_unchanged ==
    /\ UNCHANGED <<blueprints, tick_counter, food_spawn_interval, food_spawn_amount,
                   population_data>>
    /\ controller_unchanged

\* update(), phase 1: self.world.update_grid()
RebuildGrid ==
    /\ pc = "idle"
    /\ tick_counter < MaxTicks
    /\ grid' = UpdateGrid(creatures, food)
    /\ pc' = "update"
    /\ i' = 1
    /\ world_unchanged
    /\ UNCHANGED <<creatures, food, j, neighbors, checked_pairs, eaten_food,
                   species_counts, newborns>>

\* update(), phase 2, one iteration: creature.update(world) (sense, think,
\* act), then world.handle_boundaries(creature)
UpdateCreature ==
    /\ pc = "update"
    /\ i <= Len(creatures)
    /\ \E out \in NN_OUTPUTS :
       \E thought \in {[creatures[i] EXCEPT !.nn_inputs = Sense(creatures, food, grid, i),
                                            !.nn_outputs = out]} :
       \E acted \in {Act(thought, thought.nn_outputs)} :
           creatures' = [creatures EXCEPT ![i] = HandleBoundaries(acted)]
    /\ i' = i + 1
    /\ world_unchanged
    /\ UNCHANGED <<food, grid, pc, j, neighbors, checked_pairs, eaten_food,
                   species_counts, newborns>>

\* end of the phase 2 loop; checked_pairs = set()
UpdateDone ==
    /\ pc = "update"
    /\ i > Len(creatures)
    /\ pc' = "collide"
    /\ i' = 1
    /\ checked_pairs' = {}
    /\ world_unchanged
    /\ UNCHANGED <<creatures, food, grid, j, neighbors, eaten_food,
                   species_counts, newborns>>

\* update(), phase 3, outer loop: local_creatures of creature_a
CollideQuery ==
    /\ pc = "collide"
    /\ i <= Len(creatures)
    /\ neighbors' = GetNeighbors(grid, creatures[i].x, creatures[i].y, Radius(creatures[i]) * 2)
    /\ j' = 1
    /\ pc' = "collide_b"
    /\ world_unchanged
    /\ UNCHANGED <<creatures, food, grid, i, checked_pairs, eaten_food,
                   species_counts, newborns>>

\* line 165: local_creatures
local_creatures == neighbors.creatures

\* the test of lines 167-174 for creature_a = creatures[a], creature_b = creatures[b]
Colliding(a, b) ==
    /\ a # b
    /\ {a, b} \notin checked_pairs
    /\ HypotLess(creatures[a].x - creatures[b].x, creatures[a].y - creatures[b].y,
                 Radius(creatures[a]) + Radius(creatures[b]))

\* phase 3, inner loop: creature_b is skipped (self, a checked pair, too far)
CollideSkip ==
    /\ pc = "collide_b"
    /\ j <= Len(local_creatures)
    /\ ~Colliding(i, local_creatures[j])
    /\ j' = j + 1
    /\ world_unchanged
    /\ UNCHANGED <<creatures, food, grid, pc, i, neighbors, checked_pairs,
                   eaten_food, species_counts, newborns>>

\* phase 3, inner loop: creature_a.on_collide(creature_b, world)
CollideAB ==
    /\ pc = "collide_b"
    /\ j <= Len(local_creatures)
    /\ Colliding(i, local_creatures[j])
    /\ LET b == local_creatures[j]
           r == OnCollide(creatures[i], creatures[b])
       IN  creatures' = [creatures EXCEPT ![i] = r[1], ![b] = r[2]]
    /\ pc' = "collide_ba"
    /\ world_unchanged
    /\ UNCHANGED <<food, grid, i, j, neighbors, checked_pairs, eaten_food,
                   species_counts, newborns>>

\* phase 3, inner loop: creature_b.on_collide(creature_a, world);
\* checked_pairs.add(pair)
CollideBA ==
    /\ pc = "collide_ba"
    /\ LET b == local_creatures[j]
           r == OnCollide(creatures[b], creatures[i])
       IN  /\ creatures' = [creatures EXCEPT ![b] = r[1], ![i] = r[2]]
           /\ checked_pairs' = checked_pairs \cup {{i, b}}
    /\ j' = j + 1
    /\ pc' = "collide_b"
    /\ world_unchanged
    /\ UNCHANGED <<food, grid, i, neighbors, eaten_food, species_counts, newborns>>

\* phase 3: the inner loop is over, on to the next creature_a
CollideNext ==
    /\ pc = "collide_b"
    /\ j > Len(local_creatures)
    /\ i' = i + 1
    /\ j' = 0
    /\ neighbors' = NO_NEIGHBORS
    /\ pc' = "collide"
    /\ world_unchanged
    /\ UNCHANGED <<creatures, food, grid, checked_pairs, eaten_food, species_counts, newborns>>

\* end of phase 3; eaten_food = []
CollideDone ==
    /\ pc = "collide"
    /\ i > Len(creatures)
    /\ pc' = "feed"
    /\ i' = 1
    /\ checked_pairs' = {}
    /\ eaten_food' = << >>
    /\ world_unchanged
    /\ UNCHANGED <<creatures, food, grid, j, neighbors, species_counts, newborns>>

\* the inner loop without the "in eaten_food" test of line 184
RECURSIVE FirstEdible_IgnoresEaten(_, _, _, _)
FirstEdible_IgnoresEaten(c, local_food, eaten, k) ==
    IF k > Len(local_food) THEN 0
    ELSE LET f == food[local_food[k]]
             rr == Radius(c) + f.radius
         IN  IF HypotLess(c.x - f.x, c.y - f.y, rr)
             THEN local_food[k]
             ELSE FirstEdible_IgnoresEaten(c, local_food, eaten, k + 1)

\* phase 4, the inner loop of lines 183-190: the first item of local_food
\* (from position k) that is not eaten yet and touches c; 0 when there is none
RECURSIVE FirstEdible(_, _, _, _)
FirstEdible(c, local_food, eaten, k) ==
    IF k > Len(local_food) THEN 0
    ELSE LET f == food[local_food[k]]
             rr == Radius(c) + f.radius
         IN  IF ~InSeq(local_food[k], eaten) /\ HypotLess(c.x - f.x, c.y - f.y, rr)
             THEN local_food[k]
             ELSE FirstEdible(c, local_food, eaten, k + 1)

\* eating without the cap of line 188
Eat_NoCap(c, f) == [c EXCEPT !.energy = c.energy + f.energy]

\* lines 187-188: the energy of c after eating f
Eat(c, f) ==
    LET e == c.energy + f.energy
    IN  [c EXCEPT !.energy = IF e > MaxEnergy(c) THEN MaxEnergy(c) ELSE e]

\* update(), phase 4, one iteration of the outer loop
FeedCreature ==
    /\ pc = "feed"
    /\ i <= Len(creatures)
    /\ LET c == creatures[i]
           local_food == GetNeighbors(grid, c.x, c.y, Radius(c)).food
           f == FirstEdible(c, local_food, eaten_food, 1)
       IN  IF f = 0
           THEN UNCHANGED <<creatures, eaten_food>>
           ELSE /\ creatures' = [creatures EXCEPT ![i] = Eat(c, food[f])]
                /\ eaten_food' = Append(eaten_food, f)
    /\ i' = i + 1
    /\ world_unchanged
    /\ UNCHANGED <<food, grid, pc, j, neighbors, checked_pairs, species_counts, newborns>>

\* line 191: the food list without the eaten items
RECURSIVE WithoutEaten(_, _, _)
WithoutEaten(fs, eaten, k) ==
    IF k > Len(fs) THEN << >>
    ELSE (IF InSeq(k, eaten) THEN << >> ELSE <<fs[k]>>) \o WithoutEaten(fs, eaten, k + 1)

\* lines 194-196: species_counts
SpeciesCounts(cs) ==
    [s \in {cs[k].species : k \in 1..Len(cs)} |->
        Cardinality({k \in 1..Len(cs) : cs[k].species = s})]

\* end of phase 4 (line 191) and the start of phase 5 (lines 194-198)
FeedDone ==
    /\ pc = "feed"
    /\ i > Len(creatures)
    /\ food' = WithoutEaten(food, eaten_food, 1)
    /\ eaten_food' = << >>
    /\ species_counts' = SpeciesCounts(creatures)
    /\ newborns' = << >>
    /\ pc' = "reproduce"
    /\ i' = 1
    /\ world_unchanged
    /\ UNCHANGED <<creatures, grid, j, neighbors, checked_pairs>>

\* line 201: the orchestrator's test before it calls reproduce()
MayReproduce(c) ==
    /\ c.energy >= ReproductionThreshold(c)
    /\ species_counts[c.species] < Cfg(c).population_cap

\* phase 5 adding the children to world.creatures at once, not to newborns
ReproduceCreature_ExtendsAtOnce ==
    /\ pc = "reproduce"
    /\ i <= Len(creatures)
    /\ LET c == creatures[i]
       IN  IF MayReproduce(c)
           THEN \E n \in Cfg(c).min_offspring..Cfg(c).max_offspring :
                \E angles \in [1..n -> SPAWN_ANGLES] :
                    LET r == Reproduce(c, n, angles)
                    IN  IF Len(r.children) > 0
                        THEN /\ creatures' = [creatures EXCEPT ![i].energy = @ - r.cost]
                                                 \o r.children
                             /\ species_counts' =
                                    [species_counts EXCEPT ![c.species] = @ + Len(r.children)]
                             /\ UNCHANGED newborns
                        ELSE UNCHANGED <<creatures, newborns, species_counts>>
           ELSE UNCHANGED <<creatures, newborns, species_counts>>
    /\ i' = i + 1
    /\ world_unchanged
    /\ UNCHANGED <<food, grid, pc, j, neighbors, checked_pairs, eaten_food>>

\* update(), phase 5, one iteration (lines 200-206)
ReproduceCreature ==
    /\ pc = "reproduce"
    /\ i <= Len(creatures)
    /\ LET c == creatures[i]
       IN  IF MayReproduce(c)
           THEN \E n \in Cfg(c).min_offspring..Cfg(c).max_offspring :
                \E angles \in [1..n -> SPAWN_ANGLES] :
                    LET r == Reproduce(c, n, angles)
                    IN  IF Len(r.children) > 0
                        THEN /\ creatures' = [creatures EXCEPT ![i].energy = @ - r.cost]
                             /\ newborns' = newborns \o r.children
                             /\ species_counts' =
                                    [species_counts EXCEPT ![c.species] = @ + Len(r.children)]
                        ELSE UNCHANGED <<creatures, newborns, species_counts>>
           ELSE UNCHANGED <<creatures, newborns, species_counts>>
    /\ i' = i + 1
    /\ world_unchanged
    /\ UNCHANGED <<food, grid, pc, j, neighbors, checked_pairs, eaten_food>>

\* end of phase 5 (line 207): self.world.creatures.extend(newborns)
ReproduceDone ==
    /\ pc = "reproduce"
    /\ i > Len(creatures)
    /\ creatures' = creatures \o newborns
    /\ newborns' = << >>
    /\ species_counts' = << >>
    /\ pc' = "death"
    /\ i' = 0
    /\ world_unchanged
    /\ UNCHANGED <<food, grid, j, neighbors, checked_pairs, eaten_food>>

\* update(), phase 6 (line 210)
DeathPass ==
    /\ pc = "death"
    /\ creatures' = SelectSeq(creatures, IsAlive)
    /\ pc' = "spawn"
    /\ world_unchanged
    /\ UNCHANGED <<food, grid, i, j, neighbors, checked_pairs, eaten_food,
                   species_counts, newborns>>

\* log_population_data, lines 93 and 101: the history keeps at most
\* GRAPH_MAX_POINTS points
TrimHistory(history) == IF Len(history) > GRAPH_MAX_POINTS THEN Tail(history) ELSE history

\* Simulation.log_population_data: the share of each species, in percent
\* (population_data is keyed by colour, one colour per species)
LogPopulationData(pd, cs) ==
    LET total_creatures == Len(cs)
        counts == SpeciesCounts(cs)
        all_species == DOMAIN pd \cup DOMAIN counts
    IN  IF total_creatures = 0
        THEN [s \in DOMAIN pd |-> TrimHistory(Append(pd[s], 0))]
        ELSE [s \in all_species |->
                 TrimHistory(Append(IF s \in DOMAIN pd THEN pd[s] ELSE << >>,
                                    ((IF s \in DOMAIN counts THEN counts[s] ELSE 0) * 100)
                                        \div total_creatures))]

\* phase 7 testing the tick counter before it is incremented
SpawnTick_BeforeIncrement ==
    /\ pc = "spawn"
    /\ tick_counter' = tick_counter + 1
    /\ IF food_spawn_interval > 0 /\ tick_counter % food_spawn_interval = 0
       THEN \E spots \in [1..food_spawn_amount -> FOOD_SPOTS] : food' = SpawnFood(food, spots)
       ELSE UNCHANGED food
    /\ IF (tick_counter + 1) % GRAPH_UPDATE_RATE = 0
       THEN population_data' = LogPopulationData(population_data, creatures)
       ELSE UNCHANGED population_data
    /\ pc' = "idle"
    /\ UNCHANGED <<blueprints, food_spawn_interval, food_spawn_amount, creatures, grid,
                   i, j, neighbors, checked_pairs, eaten_food, species_counts, newborns>>
    /\ controller_unchanged

\* update(), phase 7 (lines 213-218)
SpawnTick ==
    /\ pc = "spawn"
    /\ tick_counter' = tick_counter + 1
    /\ IF food_spawn_interval > 0 /\ (tick_counter + 1) % food_spawn_interval = 0
       THEN \E spots \in [1..food_spawn_amount -> FOOD_SPOTS] : food' = SpawnFood(food, spots)
       ELSE UNCHANGED food
    /\ IF (tick_counter + 1) % GRAPH_UPDATE_RATE = 0
       THEN population_data' = LogPopulationData(population_data, creatures)
       ELSE UNCHANGED population_data
    /\ pc' = "idle"
    /\ UNCHANGED <<blueprints, food_spawn_interval, food_spawn_amount, creatures, grid,
                   i, j, neighbors, checked_pairs, eaten_food, species_counts, newborns>>
    /\ controller_unchanged

Next ==
    \/ RebuildGrid
    \/ UpdateCreature
    \/ UpdateDone
    \/ CollideQuery
    \/ CollideSkip
    \/ CollideAB
    \/ CollideBA
    \/ CollideNext
    \/ CollideDone
    \/ FeedCreature
    \/ FeedDone
    \/ ReproduceCreature
    \/ ReproduceDone
    \/ DeathPass
    \/ SpawnTick

Spec == Init /\ [][Next]_vars

\* The worlds of Init with the descriptor table of blueprints.py, the two
\* agents created on one spot and a food item on each food spot
LiveInit ==
    /\ Init
    /\ blueprints = SPECIES_BLUEPRINTS
    /\ creatures[1].x = creatures[2].x
    /\ food[1].x > food[2].x

\* update() runs to its end and run() calls it again: a step of the tick
\* that can be taken is taken
LiveSpec == LiveInit /\ [][Next]_vars /\ WF_vars(Next)

\* ------------------------------------------------------- handle_events
\* run() calls handle_events() before every update(): the events arrive
\* while no tick is under way (pc = "idle").
\* The values the two sliders are moved to (their range starts at 1)
SPAWN_INTERVALS == {1, 2}
SPAWN_AMOUNTS == {1, 2}

loops_unchanged == UNCHANGED <<pc, i, j, neighbors, checked_pairs, eaten_food,
                               species_counts, newborns>>

\* reset without the two clear() calls of _populate_world
Reset_WithoutClear ==
    /\ pc = "idle"
    /\ tick_counter' = 0
    /\ population_data' = << >>
    /\ LET species == InitialSpecies(blueprints, 1)
       IN  \E spots \in [1..Len(species) -> CREATURE_SPOTS] :
               creatures' = creatures \o [k \in 1..Len(species) |->
                                BaseCreature(spots[k][1], spots[k][2], species[k])]
    /\ \E spots \in [1..INITIAL_FOOD_COUNT -> FOOD_SPOTS] : food' = SpawnFood(food, spots)
    /\ UNCHANGED <<blueprints, grid, food_spawn_interval, food_spawn_amount>>
    /\ loops_unchanged
    /\ controller_unchanged

\* Simulation.reset (through the reset button, lines 128-130): the counters
\* are cleared and _populate_world clears and reseeds the world; the grid is
\* left as the last tick built it.
Reset ==
    /\ pc = "idle"
    /\ tick_counter' = 0
    /\ population_data' = << >>
    /\ LET species == InitialSpecies(blueprints, 1)
       IN  \E spots \in [1..Len(species) -> CREATURE_SPOTS] :
               creatures' = [k \in 1..Len(species) |->
                                BaseCreature(spots[k][1], spots[k][2], species[k])]
    /\ \E spots \in [1..INITIAL_FOOD_COUNT -> FOOD_SPOTS] : food' = SpawnFood(<< >>, spots)
    /\ UNCHANGED <<blueprints, grid, food_spawn_interval, food_spawn_amount>>
    /\ loops_unchanged
    /\ controller_unchanged

\* handle_events, lines 142-144: the interval slider was moved
IntervalSliderMoved ==
    /\ pc = "idle"
    /\ \E value \in SPAWN_INTERVALS : food_spawn_interval' = value
    /\ UNCHANGED <<blueprints, creatures, food, grid, tick_counter, food_spawn_amount,
                   population_data>>
    /\ loops_unchanged
    /\ controller_unchanged

\* handle_events, lines 145-147: the amount slider was moved
AmountSliderMoved ==
    /\ pc = "idle"
    /\ \E value \in SPAWN_AMOUNTS : food_spawn_amount' = value
    /\ UNCHANGED <<blueprints, creatures, food, grid, tick_counter, food_spawn_interval,
                   population_data>>
    /\ loops_unchanged
    /\ controller_unchanged

HandleEvents == Reset \/ IntervalSliderMoved \/ AmountSliderMoved

\* run(): events between the ticks
RunNext == HandleEvents \/ Next

\* A descriptor table that seeds two scavengers and no herbivore: a world
\* small enough to follow through resets and slider moves.
PAIR_BLUEPRINTS ==
    [SPECIES_BLUEPRINTS EXCEPT !.herbivore_blue.count = 0, !.scavenger_red.count = 2]

\* Simulation.__init__ and _populate_world, from PAIR_BLUEPRINTS
RunInit ==
    /\ blueprints = PAIR_BLUEPRINTS
    /\ LET species == InitialSpecies(blueprints, 1)
       IN  \E spots \in [1..Len(species) -> CREATURE_SPOTS] :
               creatures = [k \in 1..Len(species) |->
                               BaseCreature(spots[k][1], spots[k][2], species[k])]
    /\ \E spots \in [1..INITIAL_FOOD_COUNT -> FOOD_SPOTS] : food = SpawnFood(<< >>, spots)
    /\ grid = << >>
    /\ tick_counter = 0
    /\ food_spawn_interval = FOOD_SPAWN_INTERVAL
    /\ food_spawn_amount = FOOD_SPAWN_AMOUNT
    /\ pc = "idle"
    /\ i = 0
    /\ j = 0
    /\ neighbors = NO_NEIGHBORS
    /\ checked_pairs = {}
    /\ eaten_food = << >>
    /\ species_counts = << >>
    /\ newborns = << >>
    /\ population_data = << >>
    /\ NoController

RunSpec == RunInit /\ [][RunNext]_vars

\* ===================================================================
\* Claims
\* ===================================================================
SpeciesPopulation(s) == Cardinality({k \in 1..Len(creatures) : creatures[k].species = s})

\* C1 - Population cap: in every state reached by any sequence of ticks the
\* number of agents of each species is at most that species' population_cap.
C1_PopulationCapRespected ==
    \A s \in DOMAIN blueprints : SpeciesPopulation(s) <= blueprints[s].population_cap

\* the squared distance between two entities (a distance beyond 30000 units
\* counts as 30000 units)
Dist2(a, b) ==
    LET dx == Min(Abs(a.x - b.x), 30000)
        dy == Min(Abs(a.y - b.y), 30000)
    IN  dx * dx + dy * dy

\* how many items of seq equal x
Occurrences(x, seq) == Cardinality({k \in 1..Len(seq) : seq[k] = x})

\* C2 - No double consumption: within one feeding pass every Food item gives
\* its energy to at most one agent (it is never claimed twice), every agent
\* consumes at most one item (a step of the pass claims none or one, and then
\* only that agent's energy rises, by the item's energy capped at max_energy),
\* and after the pass the food collection holds exactly the unconsumed items,
\* in their order.
C2_NoDoubleConsumption ==
    [][/\ (pc = "feed" /\ pc' = "feed") =>
            \/ eaten_food' = eaten_food /\ creatures' = creatures
            \/ \E f \in 1..Len(food) :
                  /\ Occurrences(f, eaten_food) = 0
                  /\ eaten_food' = Append(eaten_food, f)
                  /\ creatures' = [creatures EXCEPT ![i].energy =
                                      Min(MaxEnergy(creatures[i]), @ + food[f].energy)]
       /\ (pc = "feed" /\ pc' = "reproduce") =>
            /\ \A f \in 1..Len(food) : Occurrences(f, eaten_food) <= 1
            /\ Len(food') = Len(food) - Len(eaten_food)
            /\ \A f \in 1..Len(food) :
                  Occurrences(f, eaten_food) = 0 =>
                      food'[f - Cardinality({e \in 1..f : Occurrences(e, eaten_food) > 0})] = food[f]
      ]_vars

\* C2 witness: in a feeding pass an item has been consumed by the first agent
\* while the second agent touches it too, and the pass has gone past both.
C2_Witness ==
    /\ pc = "feed"
    /\ i = 3
    /\ Len(eaten_food) = 1
    /\ \A k \in 1..2 :
          LET rr == Radius(creatures[k]) + food[eaten_food[1]].radius
          IN  Dist2(creatures[k], food[eaten_food[1]]) < rr * rr

\* C3 - Energy upper bound: every agent of the world, and every newborn not
\* yet added to it, has energy <= its species' max_energy, in every state.
C3_EnergyUpperBound ==
    /\ \A k \in 1..Len(creatures) : creatures[k].energy <= MaxEnergy(creatures[k])
    /\ \A k \in 1..Len(newborns) : newborns[k].energy <= MaxEnergy(newborns[k])

\* C3 witness: an agent has been fed up to exactly max_energy (the cap acted:
\* the scavenger's energy plus FOOD_ENERGY exceeds its max_energy).
C3_Witness ==
    /\ pc = "feed"
    /\ \E k \in 1..Len(creatures) :
          /\ k < i
          /\ creatures[k].energy = MaxEnergy(creatures[k])
          /\ MaxEnergy(creatures[k]) < TDiv(MaxEnergy(creatures[k]), 2) + FOOD_ENERGY

\* an agent the death pass must remove
Dead(c) == c.energy <= 0 \/ c.age >= Cfg(c).lifespan_ticks

\* C4 - Death pass: after the death pass the agent collection holds exactly
\* the agents that were present before it with energy > 0 and age < lifespan,
\* in their order.
C4_DeathPassExact ==
    [][pc = "death" =>
          /\ Len(creatures') = Cardinality({k \in 1..Len(creatures) : ~Dead(creatures[k])})
          /\ \A k \in 1..Len(creatures) :
                ~Dead(creatures[k]) =>
                    creatures'[k - Cardinality({d \in 1..k : Dead(creatures[d])})] = creatures[k]
      ]_vars

\* C4 witness: the death pass is about to run on a world with a starved agent
\* (energy exactly 0), an agent that reached its lifespan with energy left,
\* and an agent that stays.
C4_Witness ==
    /\ pc = "death"
    /\ \E k \in 1..Len(creatures) : creatures[k].energy = 0
    /\ \E k \in 1..Len(creatures) :
          creatures[k].energy > 0 /\ creatures[k].age >= Cfg(creatures[k]).lifespan_ticks
    /\ \E k \in 1..Len(creatures) : ~Dead(creatures[k])

\* C5 - Flat reproduction cost: whenever an agent produces a non-empty litter
\* in the reproduction pass, its energy decreases by exactly
\* reproduction_cost, whatever the litter size; no other agent changes and
\* the earlier newborns are untouched.
C5_FlatReproductionCost ==
    [][(pc = "reproduce" /\ pc' = "reproduce" /\ Len(newborns') > Len(newborns)) =>
          /\ creatures' = [creatures EXCEPT ![i].energy = @ - ReproductionCost(creatures[i])]
          /\ SubSeq(newborns', 1, Len(newborns)) = newborns
      ]_vars

\* C5 witness: the first agent has produced a litter of two (the largest
\* litter of its species) and paid for it.
C5_Witness ==
    /\ pc = "reproduce"
    /\ i = 2
    /\ Len(newborns) = 2
    /\ Cfg(creatures[1]).max_offspring = 2
    /\ tick_counter = 0
    /\ creatures[1].energy < ReproductionThreshold(creatures[1])

\* C6 - Insufficient energy: for an agent with energy < reproduction_cost,
\* reproduce() returns an empty litter and a zero cost for every draw it could
\* make, and the reproduction pass leaves the agents (the parent's energy
\* among them) and the newborns as they were.
C6_InsufficientEnergy ==
    [][(pc = "reproduce" /\ i <= Len(creatures)
        /\ creatures[i].energy < ReproductionCost(creatures[i])) =>
          /\ \A n \in Cfg(creatures[i]).min_offspring..Cfg(creatures[i]).max_offspring :
             \A angles \in [1..n -> SPAWN_ANGLES] :
                 Reproduce(creatures[i], n, angles) = [children |-> << >>, cost |-> 0]
          /\ creatures' = creatures
          /\ newborns' = newborns
      ]_vars

\* C6 witness: the orchestrator is about to call reproduce() on an agent that
\* passes its test (threshold reached, species under its cap) and has less
\* energy than reproduction_cost.
C6_Witness ==
    /\ pc = "reproduce"
    /\ i <= Len(creatures)
    /\ MayReproduce(creatures[i])
    /\ creatures[i].energy < ReproductionCost(creatures[i])

\* C7 - Litter size: every successful reproduce() call (the orchestrator's
\* test passes and energy >= reproduction_cost) appends n newborns of the
\* parent's species with min_offspring <= n <= max_offspring, and at the end
\* of the pass the agent collection grows by exactly the newborns.
C7_LitterSize ==
    [][/\ (pc = "reproduce" /\ i <= Len(creatures) /\ MayReproduce(creatures[i])
           /\ creatures[i].energy >= ReproductionCost(creatures[i])) =>
            LET n == Len(newborns') - Len(newborns)
            IN  /\ Cfg(creatures[i]).min_offspring <= n
                /\ n <= Cfg(creatures[i]).max_offspring
                /\ SubSeq(newborns', 1, Len(newborns)) = newborns
                /\ \A k \in (Len(newborns) + 1)..Len(newborns') :
                      newborns'[k].species = creatures[i].species
       /\ (pc = "reproduce" /\ pc' = "death") =>
            /\ Len(creatures') = Len(creatures) + Len(newborns)
            /\ SubSeq(creatures', 1, Len(creatures)) = creatures
            /\ SubSeq(creatures', Len(creatures) + 1, Len(creatures')) = newborns
      ]_vars

\* C7 witness: the first reproduction pass has ended and the world holds the
\* one herbivore it started with plus a litter of two.
C7_Witness ==
    /\ pc = "death"
    /\ tick_counter = 0
    /\ SpeciesPopulation("herbivore_blue") = 3

\* self's interaction table maps other's species to steal-energy
StealConfigured(self, other) ==
    /\ other.species \in DOMAIN Cfg(self).collision_interactions
    /\ Cfg(self).collision_interactions[other.species] = "steal_energy"

\* the energies after thief stole from victim, as C8 states them
StealOutcome(thief, victim, thief2, victim2) ==
    LET s == Min(victim.energy, Cfg(thief).steal_amount)
        eff == Cfg(thief).steal_efficiency
    IN  /\ victim2.energy = victim.energy - s
        /\ thief2.energy = Min(MaxEnergy(thief), thief.energy + ((eff[1] * s) \div eff[2]))
        /\ (Cfg(thief).steal_amount = 30 /\ eff = <<4, 5>> /\ victim.energy >= 30) =>
              /\ victim2.energy = victim.energy - 30
              /\ thief2.energy = Min(MaxEnergy(thief), thief.energy + 24)

\* C8 - Steal transfer: when on_collide runs for a thief whose table maps the
\* victim's species to steal-energy, the victim loses exactly
\* s = min(victim.energy, steal_amount) and the thief's energy becomes
\* min(max_energy, energy + steal_efficiency * s) (30 and 24 for amount 30,
\* efficiency 0.8); on_collide runs for a pair only while the pair is not in
\* checked_pairs, the pair is in checked_pairs afterwards, and checked_pairs
\* only grows during the collision pass: once per pair per tick.
C8_StealTransfer ==
    [][/\ (pc = "collide_b" /\ pc' = "collide_ba") =>
            LET b == local_creatures[j]
            IN  /\ {i, b} \notin checked_pairs
                /\ StealConfigured(creatures[i], creatures[b]) =>
                      StealOutcome(creatures[i], creatures[b], creatures'[i], creatures'[b])
       /\ (pc = "collide_ba") =>
            LET b == local_creatures[j]
            IN  /\ {i, b} \in checked_pairs'
                /\ StealConfigured(creatures[b], creatures[i]) =>
                      StealOutcome(creatures[b], creatures[i], creatures'[b], creatures'[i])
       /\ (pc \in {"collide", "collide_b", "collide_ba"}
           /\ pc' \in {"collide", "collide_b", "collide_ba"}) =>
            checked_pairs \subseteq checked_pairs'
      ]_vars

\* C8 witness: in the first tick a scavenger that stood still has stolen 30
\* from a herbivore and gained 24, and the pair is in checked_pairs.
C8_Witness ==
    /\ pc = "collide_b"
    /\ tick_counter = 0
    /\ \E t \in 1..Len(creatures) : \E v \in 1..Len(creatures) :
          /\ {t, v} \in checked_pairs
          /\ StealConfigured(creatures[t], creatures[v])
          /\ creatures[t].energy =
                TDiv(MaxEnergy(creatures[t]), 2) - Cfg(creatures[t]).metabolic_rate + 24
          /\ creatures[v].energy =
                TDiv(MaxEnergy(creatures[v]), 2) - Cfg(creatures[v]).metabolic_rate - 30

\* the energies of all agents are the same before and after a step
EnergiesUnchanged ==
    /\ Len(creatures') = Len(creatures)
    /\ \A k \in 1..Len(creatures) : creatures'[k].energy = creatures[k].energy

\* C9 - Unknown species no-op: when on_collide runs for an agent whose
\* interaction table has no entry for the other agent's species, no agent's
\* energy changes in that call.
C9_UnknownSpeciesNoOp ==
    [][/\ (pc = "collide_b" /\ pc' = "collide_ba"
           /\ creatures[local_creatures[j]].species
                 \notin DOMAIN Cfg(creatures[i]).collision_interactions) =>
            EnergiesUnchanged
       /\ (pc = "collide_ba"
           /\ creatures[i].species
                 \notin DOMAIN Cfg(creatures[local_creatures[j]]).collision_interactions) =>
            EnergiesUnchanged
      ]_vars

\* C9 witness: a herbivore (empty table) has run on_collide on a scavenger
\* whose table maps herbivores to steal-energy, and the scavenger's call is
\* still to come.
C9_Witness ==
    /\ pc = "collide_ba"
    /\ DOMAIN Cfg(creatures[i]).collision_interactions = {}
    /\ StealConfigured(creatures[local_creatures[j]], creatures[i])

\* creatures a and b overlap: their centres are closer than the sum of radii
Overlapping(a, b) ==
    HypotLess(creatures[a].x - creatures[b].x, creatures[a].y - creatures[b].y,
              Radius(creatures[a]) + Radius(creatures[b]))

\* C11 - Collision pass completeness and deduplication: on_collide runs for a
\* pair only while the pair is not in checked_pairs and checked_pairs only
\* grows during the pass (never more than once), and when the pass ends every
\* pair of distinct agents whose centres are closer than the sum of their
\* radii has had on_collide in both directions (never zero times).
C11_CollisionPassComplete ==
    [][/\ (pc = "collide_b" /\ pc' = "collide_ba") =>
            {i, local_creatures[j]} \notin checked_pairs
       /\ (pc \in {"collide", "collide_b", "collide_ba"}
           /\ pc' \in {"collide", "collide_b", "collide_ba"}) =>
            checked_pairs \subseteq checked_pairs'
       /\ (pc = "collide" /\ pc' = "feed") =>
            \A a \in 1..Len(creatures) : \A b \in 1..Len(creatures) :
                (a # b /\ Overlapping(a, b)) => {a, b} \in checked_pairs
      ]_vars

\* the all-zero input vector of the width sense() builds
ZERO_INPUTS == <<0, 0, 0, 0, 0, 0, 0>>

\* C15 - Zero-velocity sensing: whenever sense() runs on an agent whose
\* velocity is exactly (0, 0), the input vector it leaves is all zero.
C15_ZeroVelocityZeroInputs ==
    [][(pc = "update" /\ i <= Len(creatures)
        /\ creatures[i].vx = 0 /\ creatures[i].vy = 0) =>
          creatures'[i].nn_inputs = ZERO_INPUTS
      ]_vars

\* C20 - Sensing discards out-of-radius candidates: in the input vector
\* sense() leaves, the nearest food's distance is at most sense_radius
\* (dist_food_norm <= 1, and |dx_food|, |dy_food| <= 1) and so is the nearest
\* creature's (dx_creature^2 + dy_creature^2 <= 1).
C20_SensedWithinRadius ==
    [][(pc = "update" /\ i <= Len(creatures)) =>
          LET inputs == creatures'[i].nn_inputs
          IN  /\ inputs[4] <= NN_ONE
              /\ Abs(inputs[2]) <= NN_ONE /\ Abs(inputs[3]) <= NN_ONE
              /\ Abs(inputs[5]) <= NN_ONE /\ Abs(inputs[6]) <= NN_ONE
              /\ inputs[5] * inputs[5] + inputs[6] * inputs[6] <= NN_ONE * NN_ONE
      ]_vars

\* an agent as BaseCreature.__init__ leaves it
Fresh(c) ==
    /\ c.age = 0
    /\ c.energy = TDiv(MaxEnergy(c), 2)
    /\ c.vx = 0 /\ c.vy = 0
    /\ c.nn_inputs = << >>

\* C16 - reset(): a reset leaves exactly blueprint `count` fresh agents (age
\* 0, energy max_energy / 2) of each species, placed anew, and nothing of the
\* agents before; exactly INITIAL_FOOD_COUNT new food items; tick_counter 0
\* and an empty population history.  (Between two ticks only reset changes
\* the world, the counter or the history.)
C16_ResetReseeds ==
    [][(pc = "idle" /\ pc' = "idle"
        /\ <<creatures, food, tick_counter, population_data>>'
               # <<creatures, food, tick_counter, population_data>>) =>
          /\ tick_counter' = 0
          /\ population_data' = << >>
          /\ \A s \in DOMAIN blueprints :
                Cardinality({k \in 1..Len(creatures') : creatures'[k].species = s})
                    = blueprints[s].count
          /\ \A k \in 1..Len(creatures') :
                /\ Fresh(creatures'[k])
                /\ <<creatures'[k].x, creatures'[k].y>> \in CREATURE_SPOTS
          /\ Len(food') = INITIAL_FOOD_COUNT
          /\ \A k \in 1..Len(food') :
                /\ food'[k].energy = FOOD_ENERGY
                /\ <<food'[k].x, food'[k].y>> \in FOOD_SPOTS
      ]_vars

\* C16 witness: a reset has happened after the world had run: the counter is
\* 0 while the grid of an earlier tick (with three food items filed, more
\* than a fresh world holds) is still there, and the agents are fresh.
C16_Witness ==
    /\ pc = "idle"
    /\ tick_counter = 0
    /\ \E cell \in DOMAIN grid : InSeq(INITIAL_FOOD_COUNT + 1, grid[cell].food)
    /\ Len(creatures) = 2
    /\ \A k \in 1..Len(creatures) : Fresh(creatures[k])
    /\ Len(food) = INITIAL_FOOD_COUNT

\* C17 - Periodic food injection: the two knobs change only between ticks;
\* phase 7 appends exactly food_spawn_amount new items when the incremented
\* tick counter is a multiple of food_spawn_interval (which is > 0) and
\* leaves the food alone otherwise; no other phase of a tick adds food.
C17_PeriodicInjection ==
    [][/\ <<food_spawn_interval, food_spawn_amount>>' # <<food_spawn_interval, food_spawn_amount>>
            => (pc = "idle" /\ pc' = "idle")
       /\ food_spawn_interval > 0
       /\ pc = "spawn" =>
            /\ tick_counter' = tick_counter + 1
            /\ IF tick_counter' % food_spawn_interval = 0
               THEN /\ Len(food') = Len(food) + food_spawn_amount
                    /\ SubSeq(food', 1, Len(food)) = food
                    /\ \A k \in (Len(food) + 1)..Len(food') : food'[k].energy = FOOD_ENERGY
               ELSE food' = food
       /\ (pc \notin {"spawn", "idle"}) => Len(food') <= Len(food)
      ]_vars

\* C17 witness: with interval 2 and amount 2 a tick with an odd counter has
\* just ended, and the world holds the two initial items and the batch of two
\* of tick 2 only (tick 3 added nothing; nothing was eaten).
C17_Witness ==
    /\ pc = "idle"
    /\ tick_counter = 3
    /\ food_spawn_interval = 2
    /\ food_spawn_amount = 2
    /\ Len(food) = 4

\* C18 - Index freshness: whenever a neighbour query is about to be issued
\* (sensing, collision or feeding phase), every agent and food item the grid
\* indexes is filed under the cell of its current position.
C18_IndexFresh ==
    (pc \in {"update", "collide", "feed"} /\ i <= Len(creatures)) =>
        \A cell \in DOMAIN grid :
            /\ \A n \in 1..Len(grid[cell].creatures) :
                  LET c == creatures[grid[cell].creatures[n]]
                  IN  GetCellCoords(c.x, c.y) = cell
            /\ \A n \in 1..Len(grid[cell].food) :
                  LET f == food[grid[cell].food[n]]
                  IN  GetCellCoords(f.x, f.y) = cell

\* the phase that may follow each phase
NextPhases(phase) ==
    CASE phase = "idle" -> {"update"}
      [] phase = "update" -> {"update", "collide"}
      [] phase = "collide" -> {"collide_b", "feed"}
      [] phase = "collide_b" -> {"collide_b", "collide_ba", "collide"}
      [] phase = "collide_ba" -> {"collide_b"}
      [] phase = "feed" -> {"feed", "reproduce"}
      [] phase = "reproduce" -> {"reproduce", "death"}
      [] phase = "death" -> {"spawn"}
      [] phase = "spawn" -> {"idle"}

\* C19 - Phase ordering: a tick runs rebuild, update, collision, feeding,
\* reproduction, death and injection in this order, each once; the agent
\* collection changes only at the end of the reproduction pass (the newborns
\* are appended) and in the death pass (agents are removed); until then a
\* newborn is as it was created (not moved, aged, collided, fed), no loop of
\* its birth tick reaches it, and it survives the death pass of that tick.
C19_PhaseOrder ==
    [][/\ pc' \in NextPhases(pc)
       /\ (<<pc, pc'>> \in {<<"update", "collide">>, <<"collide", "feed">>,
                            <<"feed", "reproduce">>, <<"reproduce", "death">>}) =>
            i = Len(creatures) + 1
       /\ (pc = "idle") => grid' = UpdateGrid(creatures, food)
       /\ (pc = "spawn") => tick_counter' = tick_counter + 1
       /\ (pc # "spawn") => tick_counter' = tick_counter
       /\ (pc \notin {"reproduce", "death"} \/ pc' = "reproduce") =>
            /\ Len(creatures') = Len(creatures)
            /\ \A k \in 1..Len(creatures) : creatures'[k].species = creatures[k].species
       /\ (pc = "reproduce" /\ pc' = "death") => creatures' = creatures \o newborns
       /\ (pc = "death") =>
            /\ Len(creatures') <= Len(creatures)
            /\ \A k \in 1..Len(creatures) :
                  Fresh(creatures[k]) => InSeq(creatures[k], creatures')
       /\ \A k \in 1..Len(newborns) : Fresh(newborns[k])
       /\ (pc = "reproduce" /\ pc' = "reproduce") => SubSeq(newborns', 1, Len(newborns)) = newborns
      ]_vars

\* C19 witness: the first tick has ended and the world holds an agent born in
\* it, still as it was created, next to its parent that moved and aged.
C19_Witness ==
    /\ pc = "idle"
    /\ tick_counter = 1
    /\ Len(creatures) = 3
    /\ Fresh(creatures[3])
    /\ creatures[1].age = 1
    /\ creatures[1].vx # 0

\* C21 - Push-apart is symmetric and order-independent: for every colliding
\* pair (coincident centres included) the positions the separation step
\* leaves, invoked as A on B, are those it would leave invoked as B on A, and
\* the two centres move by the same amount in opposite directions (the
\* midpoint stays).
C21_PushApartSymmetric ==
    [][CollideAB =>
          LET a == creatures[i]
              b == creatures[local_creatures[j]]
              a2 == creatures'[i]
              b2 == creatures'[local_creatures[j]]
              ba == HandlePhysicalCollision(b, a)
          IN  /\ a2.x = ba[2].x /\ a2.y = ba[2].y
              /\ b2.x = ba[1].x /\ b2.y = ba[1].y
              /\ a2.x - a.x = -(b2.x - b.x)
              /\ a2.y - a.y = -(b2.y - b.y)
      ]_vars

\* update() is between two of its phases: a loop has not started yet
BetweenPhases ==
    \/ pc \in {"idle", "death", "spawn"}
    \/ pc \in {"update", "collide", "feed", "reproduce"} /\ i = 1

\* C22 - Energy lower bound: between the phases of any tick every agent in
\* the world has energy >= 0.
C22_EnergyNonNegative ==
    BetweenPhases => \A k \in 1..Len(creatures) : creatures[k].energy >= 0

\* C26 - Stealing is monotone: whenever an on_collide call of the collision
\* pass carries out a steal-energy interaction, the victim's energy does not
\* go up and the stealer's does not go down, also for a victim whose energy
\* the movement cost of the same tick brought to zero or below.
C26_StealMonotone ==
    [][(CollideAB \/ CollideBA) =>
          LET b == local_creatures[j]
              thief == IF pc = "collide_b" THEN i ELSE b
              victim == IF pc = "collide_b" THEN b ELSE i
          IN  StealConfigured(creatures[thief], creatures[victim]) =>
                 /\ creatures'[victim].energy <= creatures[victim].energy
                 /\ creatures'[thief].energy >= creatures[thief].energy
      ]_vars

\* c has reached the end of its lifespan
Expired(c) == c.age >= Cfg(c).lifespan_ticks

\* C23 - Bounded lifetime: an agent's age goes up by exactly 1 when the
\* update phase reaches it and is changed by nothing else; no agent is older
\* than its lifespan (it is updated at most lifespan times), none that has
\* reached its lifespan is left after the death pass of that tick, and an
\* agent that has reached its lifespan is eventually removed.
C23_BoundedLifetime ==
    /\ [][
          /\ (pc = "update" /\ i' = i + 1) =>
                \A k \in 1..Len(creatures) :
                   creatures'[k].age = creatures[k].age + (IF k = i THEN 1 ELSE 0)
          /\ (pc \notin {"update", "death"}) =>
                /\ Len(creatures') >= Len(creatures)
                /\ \A k \in 1..Len(creatures) : creatures'[k].age = creatures[k].age
                /\ \A n \in (Len(creatures) + 1)..Len(creatures') : creatures'[n].age = 0
         ]_vars
    /\ [](\A k \in 1..Len(creatures) : creatures[k].age <= Cfg(creatures[k]).lifespan_ticks)
    /\ [](pc \in {"spawn", "idle"} => \A k \in 1..Len(creatures) : ~Expired(creatures[k]))
    /\ ((\E k \in 1..Len(creatures) : Expired(creatures[k]))
           ~> (\A k \in 1..Len(creatures) : ~Expired(creatures[k])))

\* C23 witness: after the death pass of the second tick the scavenger, whose
\* lifespan is 2 ticks, is gone, and the herbivore, updated twice and with
\* energy left, is still there.
C23_Witness ==
    /\ pc = "spawn"
    /\ tick_counter = 1
    /\ Len(creatures) = 1
    /\ creatures[1].species = "herbivore_blue"
    /\ creatures[1].age = 2
    /\ creatures[1].energy > 0

\* ===================================================================
\* Reproduction's mutation loop, on one parent
\* ===================================================================
\* Descriptor tables whose species never mutate a gene (mutation_rate 0.0)
\* and always do (mutation_rate 1.0)
NEVER_MUTATING ==
    [SPECIES_BLUEPRINTS EXCEPT !.herbivore_blue.mutation_rate = 0,
                               !.scavenger_red.mutation_rate = 0]
ALWAYS_MUTATING ==
    [SPECIES_BLUEPRINTS EXCEPT !.herbivore_blue.mutation_rate = 100,
                               !.scavenger_red.mutation_rate = 100]
MUTATION_TABLES == {SPECIES_BLUEPRINTS, NEVER_MUTATING, ALWAYS_MUTATING}

\* np.random.uniform(-1, 1): the genes an agent is created with
GENE_VALUES == {-100, 0, 50}
\* random.random(), in hundredths: 0.0, 0.07, 0.99
RANDOM_DRAWS == {0, 7, 99}
\* random.uniform(-amount, amount): both ends and a value between (a draw of
\* exactly 0 has probability zero)
Changes(amount) == {-amount, 3, amount}

\* the parameter tensors of NeuralNetwork(layer_sizes), in parameters()
\* order, by size: each nn.Linear holds its weight, then its bias
RECURSIVE ParamSizes(_, _)
ParamSizes(layer_sizes, k) ==
    IF k >= Len(layer_sizes) THEN << >>
    ELSE <<layer_sizes[k] * layer_sizes[k + 1], layer_sizes[k + 1]>>
         \o ParamSizes(layer_sizes, k + 1)

RECURSIVE SumLen(_, _)
SumLen(params, k) == IF k > Len(params) THEN 0 ELSE Len(params[k]) + SumLen(params, k + 1)

\* NeuralNetwork.calculate_genome_length: sum(p.numel() for p in parameters())
CalculateGenomeLength(params) == SumLen(params, 1)

\* NeuralNetwork.__init__: the tensors, every element set to `value`
NeuralNetwork(layer_sizes, value) ==
    LET sizes == ParamSizes(layer_sizes, 1)
    IN  [k \in 1..Len(sizes) |-> [m \in 1..sizes[k] |-> value]]

\* the mutation loop testing "random.random() <= mutation_rate"
MutateGenome_RateInclusive(parent_genome, mutation_rate, draws) ==
    [g \in 1..Len(parent_genome) |->
        IF draws[g].random <= mutation_rate
        THEN parent_genome[g] + draws[g].change
        ELSE parent_genome[g]]

\* reproduce, lines 165-169: mutated_genome from a copy of the parent's
\* genome; draws[g] holds what random.random() and random.uniform return
\* for gene g
MutateGenome(parent_genome, mutation_rate, draws) ==
    [g \in 1..Len(parent_genome) |->
        IF draws[g].random < mutation_rate
        THEN parent_genome[g] + draws[g].change
        ELSE parent_genome[g]]

\* BaseCreature.__init__, one agent with its random genome
MutationInit ==
    /\ blueprints \in MUTATION_TABLES
    /\ \E species \in DOMAIN blueprints :
          /\ creatures = <<BaseCreature(92 * PX, 50 * PX, species)>>
          /\ nn_params = NeuralNetwork(blueprints[species].nn_layer_sizes, 0)
    /\ genome \in [1..CalculateGenomeLength(nn_params) -> GENE_VALUES]
    /\ child_genome = << >>
    /\ nn_raised = FALSE
    /\ NoArrays
    /\ pc = "parent"
    /\ food = << >>
    /\ grid = << >>
    /\ tick_counter = 0
    /\ food_spawn_interval = FOOD_SPAWN_INTERVAL
    /\ food_spawn_amount = FOOD_SPAWN_AMOUNT
    /\ i = 0
    /\ j = 0
    /\ neighbors = NO_NEIGHBORS
    /\ checked_pairs = {}
    /\ eaten_food = << >>
    /\ species_counts = << >>
    /\ newborns = << >>
    /\ population_data = << >>

world_frame ==
    UNCHANGED <<blueprints, creatures, food, grid, tick_counter, food_spawn_interval,
                food_spawn_amount, i, j, neighbors, checked_pairs, eaten_food,
                species_counts, newborns, population_data>>

\* reproduce, one pass of the loop of lines 151-172 as far as the genome
\* goes: the child's genome is the mutated copy (line 170)
MutateChild ==
    /\ pc = "parent"
    /\ LET parent == creatures[1]
           draw == [random : RANDOM_DRAWS, change : Changes(Cfg(parent).mutation_amount)]
       IN  \E draws \in [1..Len(genome) -> draw] :
               child_genome' = MutateGenome(genome, Cfg(parent).mutation_rate, draws)
    /\ pc' = "child"
    /\ UNCHANGED <<genome, nn_params, nn_raised>>
    /\ arrays_unchanged
    /\ world_frame

\* the next pass of the loop: another child of the same parent
NextChild ==
    /\ pc = "child"
    /\ child_genome' = << >>
    /\ pc' = "parent"
    /\ UNCHANGED <<genome, nn_params, nn_raised>>
    /\ arrays_unchanged
    /\ world_frame

MutationNext == MutateChild \/ NextChild

MutationSpec == MutationInit /\ [][MutationNext]_vars

PARAM_INIT_VALUES == {-7, 7}
\* The longest vector handed to set_genome
MaxGenomeLen == 5
\* The vectors handed to set_genome
GENOME_VECTORS == UNION {[1..n -> {-100, 50}] : n \in 0..MaxGenomeLen}

\* genome[pointer : pointer + num_elements], a Python slice (cut at the end
\* of the vector, empty beyond it)
Slice(vector, pointer, num_elements) ==
    IF pointer >= Len(vector) THEN << >>
    ELSE SubSeq(vector, pointer + 1, Min(pointer + num_elements, Len(vector)))

\* NeuralNetwork.set_genome, the loop of lines 50-58 from parameter k on:
\* reshape raises when the chunk has not the tensor's number of elements,
\* and the tensors loaded before stay loaded.  [params, raised]
RECURSIVE SetGenomeFrom(_, _, _, _)
SetGenomeFrom(params, vector, k, pointer) ==
    IF k > Len(params) THEN [params |-> params, raised |-> FALSE]
    ELSE LET num_elements == Len(params[k])
             chunk == Slice(vector, pointer, num_elements)
         IN  IF Len(chunk) # num_elements
             THEN [params |-> params, raised |-> TRUE]
             ELSE SetGenomeFrom([params EXCEPT ![k] = chunk], vector, k + 1,
                                pointer + num_elements)

\* NeuralNetwork.set_genome
SetGenome(params, vector) == SetGenomeFrom(params, vector, 1, 0)

\* NeuralNetwork.__init__ for a species' topology
GenomeInit ==
    /\ blueprints = SPECIES_BLUEPRINTS
    /\ \E species \in DOMAIN blueprints : \E value \in PARAM_INIT_VALUES :
          nn_params = NeuralNetwork(blueprints[species].nn_layer_sizes, value)
    /\ genome = << >>
    /\ child_genome = << >>
    /\ nn_raised = FALSE
    /\ NoArrays
    /\ pc = "constructed"
    /\ creatures = << >>
    /\ food = << >>
    /\ grid = << >>
    /\ tick_counter = 0
    /\ food_spawn_interval = FOOD_SPAWN_INTERVAL
    /\ food_spawn_amount = FOOD_SPAWN_AMOUNT
    /\ i = 0
    /\ j = 0
    /\ neighbors = NO_NEIGHBORS
    /\ checked_pairs = {}
    /\ eaten_food = << >>
    /\ species_counts = << >>
    /\ newborns = << >>
    /\ population_data = << >>

\* nn.set_genome(vector), on a fresh controller or on one set before
CallSetGenome ==
    /\ pc \in {"constructed", "set", "raised"}
    /\ \E vector \in GENOME_VECTORS :
          LET r == SetGenome(nn_params, vector)
          IN  /\ genome' = vector
              /\ nn_params' = r.params
              /\ nn_raised' = r.raised
              /\ pc' = IF r.raised THEN "raised" ELSE "set"
    /\ UNCHANGED child_genome
    /\ arrays_unchanged
    /\ world_frame

GenomeNext == CallSetGenome

GenomeSpec == GenomeInit /\ [][GenomeNext]_vars

\* the elements of the tensors params[k..], in order
RECURSIVE Flatten(_, _)
Flatten(params, k) == IF k > Len(params) THEN << >> ELSE params[k] \o Flatten(params, k + 1)

\* C14 - Genome length check: set_genome with a vector whose length differs
\* from calculate_genome_length() raises and installs no parameter; a vector
\* of exactly that length is accepted (and installed).
C14_GenomeLengthChecked ==
    [][pc' \in {"set", "raised"} =>
          IF Len(genome') # CalculateGenomeLength(nn_params)
          THEN nn_raised' /\ nn_params' = nn_params
          ELSE ~nn_raised' /\ Flatten(nn_params', 1) = genome'
      ]_vars

\* ===================================================================
\* reproduce(), array by array: the genomes of a parent and its litter
\* ===================================================================
\* np.random.uniform(-1, 1): the genes the parent is created with
PARENT_GENE_VALUES == {-100, 50}

\* copy() handing back the array itself
GenomeCopy_Alias(arrs, ref) == [arrays |-> arrs, ref |-> ref]

\* ndarray.copy() (line 165): a new array with the contents of arrays[ref].
\* [arrays, ref]: the arrays afterwards and the new array
GenomeCopy(arrs, ref) == [arrays |-> Append(arrs, arrs[ref]), ref |-> Len(arrs) + 1]

\* calculate_genome_length() of the controller of c's species
GenomeLength(c) == CalculateGenomeLength(NeuralNetwork(Cfg(c).nn_layer_sizes, 0))

\* BaseCreature.__init__ for the parent, with the energy it has when
\* reproduce() is called: enough for the cost, or just short of it
ReproInit ==
    /\ blueprints = SPECIES_BLUEPRINTS
    /\ \E species \in DOMAIN blueprints :
       \E short \in {0, 1} :
          LET c == BaseCreature(92 * PX, 50 * PX, species)
          IN  /\ creatures = <<[c EXCEPT !.energy = IF short = 1 THEN ReproductionCost(c) - 1
                                                                ELSE c.energy]>>
              /\ \E g \in [1..GenomeLength(c) -> PARENT_GENE_VALUES] : arrays = <<g>>
    /\ genome_ref = <<1>>
    /\ mutated_genome = 0
    /\ genome = << >>
    /\ child_genome = << >>
    /\ nn_params = << >>
    /\ nn_raised = FALSE
    /\ pc = "idle"
    /\ food = << >>
    /\ grid = << >>
    /\ tick_counter = 0
    /\ food_spawn_interval = FOOD_SPAWN_INTERVAL
    /\ food_spawn_amount = FOOD_SPAWN_AMOUNT
    /\ i = 0
    /\ j = 0
    /\ neighbors = NO_NEIGHBORS
    /\ checked_pairs = {}
    /\ eaten_food = << >>
    /\ species_counts = << >>
    /\ newborns = << >>
    /\ population_data = << >>

repro_frame ==
    UNCHANGED <<blueprints, creatures, food, grid, tick_counter, food_spawn_interval,
                food_spawn_amount, neighbors, checked_pairs, eaten_food, species_counts,
                population_data, genome, child_genome, nn_params, nn_raised>>

\* reproduce(), lines 146-149 and 175-176: the energy test and the draw of
\* num_offspring (kept in j: the children still to make)
ReproduceCall ==
    /\ pc = "idle"
    /\ LET c == creatures[1]
       IN  IF c.energy >= ReproductionCost(c)
           THEN /\ \E num_offspring \in Cfg(c).min_offspring..Cfg(c).max_offspring :
                       j' = num_offspring
                /\ pc' = "child"
           ELSE /\ j' = 0
                /\ pc' = "returned"
    /\ UNCHANGED <<i, newborns, arrays, genome_ref, mutated_genome>>
    /\ repro_frame

\* lines 154-165: the child is constructed, with a random genome of its own
\* (one draw: all zero), and mutated_genome = self.genome.copy()
CreateChild ==
    /\ pc = "child"
    /\ LET own == [g \in 1..GenomeLength(creatures[1]) |-> 0]
           constructed == Append(arrays, own)
           copied == GenomeCopy(constructed, genome_ref[1])
       IN  /\ arrays' = copied.arrays
           /\ genome_ref' = Append(genome_ref, Len(constructed))
           /\ mutated_genome' = copied.ref
    /\ i' = 1
    /\ pc' = "mutate"
    /\ UNCHANGED <<j, newborns>>
    /\ repro_frame

\* lines 166-169, one pass of the mutation loop: gene i of mutated_genome
MutateGene ==
    /\ pc = "mutate"
    /\ i <= Len(arrays[mutated_genome])
    /\ \E random \in RANDOM_DRAWS :
       \E change \in Changes(Cfg(creatures[1]).mutation_amount) :
           arrays' = IF random < Cfg(creatures[1]).mutation_rate
                     THEN [arrays EXCEPT ![mutated_genome][i] = @ + change]
                     ELSE arrays
    /\ i' = i + 1
    /\ UNCHANGED <<pc, j, newborns, genome_ref, mutated_genome>>
    /\ repro_frame

\* lines 170-172: child.genome = mutated_genome (set_genome reads the array
\* and converts it into tensors of its own), children.append(child)
AssignChild ==
    /\ pc = "mutate"
    /\ i > Len(arrays[mutated_genome])
    /\ genome_ref' = [genome_ref EXCEPT ![Len(genome_ref)] = mutated_genome]
    /\ \E angle \in SPAWN_ANGLES : newborns' = Append(newborns, Offspring(creatures[1], angle))
    /\ j' = j - 1
    /\ pc' = IF j = 1 THEN "returned" ELSE "child"
    /\ UNCHANGED <<i, arrays, mutated_genome>>
    /\ repro_frame

ReproNext == ReproduceCall \/ CreateChild \/ MutateGene \/ AssignChild

ReproSpec == ReproInit /\ [][ReproNext]_vars

\* the genome of agent k: 1 is the parent, k + 1 its k-th child
GenomeOf(k) == arrays[genome_ref[k]]

\* C24 - Parent genome is untouched by reproduction: no step of reproduce(),
\* successful or not, changes the parent's genome (its length or a gene);
\* mutating one child's genome changes the genome of no child already in
\* the litter; and no step changes the length of the genome of an agent that
\* exists.
C24_ParentGenomeUntouched ==
    [][/\ genome_ref'[1] = genome_ref[1]
       /\ arrays'[genome_ref'[1]] = GenomeOf(1)
       /\ \A k \in 1..Len(newborns) :
             /\ genome_ref'[k + 1] = genome_ref[k + 1]
             /\ arrays'[genome_ref'[k + 1]] = GenomeOf(k + 1)
       /\ \A k \in 1..Len(genome_ref) :
             Len(arrays'[genome_ref'[k]]) = Len(GenomeOf(k))
      ]_vars

\* C24 witness: reproduce() has returned a litter of two whose genomes
\* differ from the parent's and from each other.
C24_Witness ==
    /\ pc = "returned"
    /\ Len(newborns) = 2
    /\ Len(genome_ref) = 3
    /\ GenomeOf(2) # GenomeOf(1)
    /\ GenomeOf(3) # GenomeOf(1)
    /\ GenomeOf(3) # GenomeOf(2)

\* ===================================================================
\* One agent's update (sense, think, act) with its own controller
\* ===================================================================
\* Updates of the agent the model follows
MaxUpdates == 2

\* The descriptor table with controllers of 7 inputs and 4 outputs, the
\* hidden layers of blueprints.py scaled down to one layer of 1 and of 2 units
ACT_BLUEPRINTS ==
    [SPECIES_BLUEPRINTS EXCEPT !.herbivore_blue.nn_layer_sizes = <<7, 1, 4>>,
                               !.scavenger_red.nn_layer_sizes = <<7, 2, 4>>]

\* np.random.uniform(-1, 1, genome_length): the genomes the model draws have
\* one value from ACT_GENE_VALUES in every weight and in the hidden biases,
\* and any of them in each bias of the output layer (the last 4 genes)
ACT_GENE_VALUES == {-99, 0, 99}
ActGenomes(genome_length) ==
    {[g \in 1..genome_length |->
         IF g > genome_length - 4 THEN bias[g - (genome_length - 4)] ELSE w] :
       w \in ACT_GENE_VALUES, bias \in [1..4 -> ACT_GENE_VALUES]}

\* BaseCreature.__init__ (lines 30-33: the controller, the random genome,
\* set_genome) for one agent, in a world with one food item
ActInit ==
    /\ blueprints = ACT_BLUEPRINTS
    /\ \E species \in DOMAIN blueprints :
          LET fresh == NeuralNetwork(blueprints[species].nn_layer_sizes, 0)
          IN  /\ creatures = <<BaseCreature(92 * PX, 50 * PX, species)>>
              /\ genome \in ActGenomes(CalculateGenomeLength(fresh))
              /\ nn_params = SetGenome(fresh, genome).params
    /\ child_genome = << >>
    /\ nn_raised = FALSE
    /\ NoArrays
    /\ \E spot \in FOOD_SPOTS : food = SpawnFood(<< >>, <<spot>>)
    /\ grid = << >>
    /\ tick_counter = 0
    /\ food_spawn_interval = FOOD_SPAWN_INTERVAL
    /\ food_spawn_amount = FOOD_SPAWN_AMOUNT
    /\ pc = "idle"
    /\ i = 0
    /\ j = 0
    /\ neighbors = NO_NEIGHBORS
    /\ checked_pairs = {}
    /\ eaten_food = << >>
    /\ species_counts = << >>
    /\ newborns = << >>
    /\ population_data = << >>

\* the agent before act(): cs[self] after sense(world) on grid g and think()
Thought(cs, fs, g, self, params) ==
    Once({Think([cs[self] EXCEPT !.nn_inputs = inputs], params) :
            inputs \in {Sense(cs, fs, g, self)}})

\* update(), phases 1 and 2 for the one agent: update_grid, then
\* creature.update(world) (sense, think, act) and handle_boundaries
CreatureUpdate ==
    /\ pc = "idle"
    /\ creatures[1].age < MaxUpdates
    /\ grid' = UpdateGrid(creatures, food)
    /\ \E thought \in {Thought(creatures, food, grid', 1, nn_params)} :
       \E acted \in {Act(thought, thought.nn_outputs)} :
           creatures' = <<HandleBoundaries(acted)>>
    /\ UNCHANGED <<blueprints, food, tick_counter, food_spawn_interval, food_spawn_amount,
                   pc, i, j, neighbors, checked_pairs, eaten_food, species_counts,
                   newborns, population_data>>
    /\ controller_unchanged

ActNext == CreatureUpdate

ActSpec == ActInit /\ [][ActNext]_vars

\* the outputs as they are but for the action intent
WithIntent(out, intent) == [out EXCEPT ![4] = intent]

\* the action intents the other execution is given
ACTION_INTENTS == {-NN_ONE, 0, NN_ONE \div 2 + 1, NN_ONE, 2 * NN_ONE}

\* C25 - actionIntent is inert: an execution of act() on the same agent state
\* with controller outputs that agree on the first three components and
\* differ in the fourth leaves the same position, velocity, energy and age.
C25_ActionIntentInert ==
    [][CreatureUpdate =>
          \A thought \in {Thought(creatures, food, grid', 1, nn_params)} :
          \A intent \in ACTION_INTENTS :
          \A other \in {HandleBoundaries(
                            Act(thought, WithIntent(thought.nn_outputs, intent)))} :
              LET c == creatures'[1]
              IN  /\ other.x = c.x /\ other.y = c.y
                  /\ other.vx = c.vx /\ other.vy = c.vy
                  /\ other.energy = c.energy
                  /\ other.age = c.age
      ]_vars

\* C25 witness: an agent has acted on outputs whose action intent is above
\* 0.5 and has moved, and another whose action intent is negative.
C25_Witness ==
    /\ creatures[1].age = 1
    /\ creatures[1].nn_outputs[4] > NN_ONE \div 2
    /\ creatures[1].vx # 0
    /\ creatures[1].nn_outputs[3] # creatures[1].nn_outputs[4]

\* C27 - Speed bound: after every act() the agent's speed is at most
\* max_speed and, when the direction's magnitude exceeds 0.01, at least
\* min_speed = 0.1 * max_speed (less the unit the components are rounded
\* by), and the tick's movement cost is at most move_cost.
C27_SpeedBound ==
    [][CreatureUpdate =>
          LET c == creatures'[1]
              out == c.nn_outputs
              max_speed == Cfg(c).max_speed
              min_speed == TDiv(max_speed, 10)
              speed == Hypot(c.vx, c.vy)
          IN  /\ speed <= max_speed
              /\ Hypot(out[1] * 100, out[2] * 100) > NN_ONE => speed + 2 >= min_speed
              /\ creatures[1].energy - c.energy <= Cfg(c).metabolic_rate + Cfg(c).move_cost
      ]_vars

\* ===================================================================
\* The same engine, populated at the arena's right edge
\* ===================================================================
\* random.randint(0, width) includes width itself: agents start on the edge
\* x = width or 10 px from it, food between them or just past x = 0.
EDGE_CREATURE_SPOTS == {<<1200 * PX, 50 * PX>>, <<1190 * PX, 50 * PX>>}
EDGE_FOOD_SPOTS == {<<1195 * PX, 50 * PX>>, <<3 * PX, 50 * PX>>}

\* Simulation.__init__ and _populate_world, drawing the edge spots
EdgeInit ==
    /\ blueprints = SPECIES_BLUEPRINTS
    /\ LET species == InitialSpecies(blueprints, 1)
       IN  \E spots \in [1..Len(species) -> EDGE_CREATURE_SPOTS] :
               creatures = [k \in 1..Len(species) |->
                               BaseCreature(spots[k][1], spots[k][2], species[k])]
    /\ \E spots \in [1..INITIAL_FOOD_COUNT -> EDGE_FOOD_SPOTS] : food = SpawnFood(<< >>, spots)
    /\ grid = << >>
    /\ tick_counter = 0
    /\ food_spawn_interval = FOOD_SPAWN_INTERVAL
    /\ food_spawn_amount = FOOD_SPAWN_AMOUNT
    /\ pc = "idle"
    /\ i = 0
    /\ j = 0
    /\ neighbors = NO_NEIGHBORS
    /\ checked_pairs = {}
    /\ eaten_food = << >>
    /\ species_counts = << >>
    /\ newborns = << >>
    /\ population_data = << >>
    /\ NoController

EdgeSpec == EdgeInit /\ [][Next]_vars

\* an agent's position is inside the arena
InArena(c) == 0 <= c.x /\ c.x < SCREEN_WIDTH /\ 0 <= c.y /\ c.y < SCREEN_HEIGHT

\* C12 - Positions stay in the arena: at the end of every tick each agent of
\* the world has 0 <= x < width and 0 <= y < height.
C12_PositionsInArena ==
    (pc = "idle" /\ tick_counter > 0) => \A k \in 1..Len(creatures) : InArena(creatures[k])

\* ===================================================================
\* The spatial grid on its own: any placement, rebuilt, then queried
\* ===================================================================
\* Places the grid is tried on (px): on both sides of cell borders, at
\* negative coordinates, and several cells apart.
GRID_SPOTS == {<<-1 * PX, -1 * PX>>, <<0, 0>>, <<19 * PX, 20 * PX>>, <<20 * PX, 19 * PX>>,
               <<40 * PX, 20 * PX>>, <<45 * PX, 45 * PX>>, <<65 * PX, -25 * PX>>}
\* Query radii: zero, less than a cell, just over a cell, several cells
GRID_RADII == {0, 5 * PX, 21 * PX, 64 * PX}

GridInit ==
    /\ blueprints = SPECIES_BLUEPRINTS
    /\ \E spots \in [1..2 -> GRID_SPOTS] :
           creatures = [k \in 1..2 |-> BaseCreature(spots[k][1], spots[k][2], SPECIES_ORDER[k])]
    /\ \E spot \in GRID_SPOTS : food = SpawnFood(<< >>, <<spot>>)
    /\ grid = << >>
    /\ tick_counter = 0
    /\ food_spawn_interval = FOOD_SPAWN_INTERVAL
    /\ food_spawn_amount = FOOD_SPAWN_AMOUNT
    /\ pc = "placed"
    /\ i = 0
    /\ j = 0
    /\ neighbors = NO_NEIGHBORS
    /\ checked_pairs = {}
    /\ eaten_food = << >>
    /\ species_counts = << >>
    /\ newborns = << >>
    /\ population_data = << >>
    /\ NoController

grid_frame ==
    /\ UNCHANGED <<blueprints, tick_counter, food_spawn_interval, food_spawn_amount,
                   checked_pairs, eaten_food, species_counts, newborns, population_data>>
    /\ controller_unchanged

\* world.update_grid()
GridRebuild ==
    /\ pc = "placed"
    /\ grid' = UpdateGrid(creatures, food)
    /\ pc' = "fresh"
    /\ neighbors' = NO_NEIGHBORS
    /\ i' = 0
    /\ j' = 0
    /\ UNCHANGED <<creatures, food>>
    /\ grid_frame

\* world.get_neighbors(creatures[q], radius), the grid being as rebuilt
GridQuery ==
    /\ pc \in {"fresh", "queried"}
    /\ \E q \in 1..Len(creatures) : \E radius \in GRID_RADII :
          /\ neighbors' = GetNeighbors(grid, creatures[q].x, creatures[q].y, radius)
          /\ i' = q
          /\ j' = radius
    /\ pc' = "queried"
    /\ UNCHANGED <<creatures, food, grid>>
    /\ grid_frame

\* an agent is somewhere else; the grid has to be rebuilt before it is used
GridMove ==
    /\ pc \in {"fresh", "queried"}
    /\ \E q \in 1..Len(creatures) : \E spot \in GRID_SPOTS :
          creatures' = [creatures EXCEPT ![q].x = spot[1], ![q].y = spot[2]]
    /\ pc' = "placed"
    /\ neighbors' = NO_NEIGHBORS
    /\ i' = 0
    /\ j' = 0
    /\ UNCHANGED <<food, grid>>
    /\ grid_frame

GridNext == GridRebuild \/ GridQuery \/ GridMove

GridSpec == GridInit /\ [][GridNext]_vars

\* C10 - No false negatives right after rebuild: a query for radius j around
\* agent i, answered by the grid as just rebuilt, returns every agent and
\* every food item whose distance to the agent is <= j.
C10_NoFalseNegatives ==
    pc = "queried" =>
        /\ \A k \in 1..Len(creatures) :
              Dist2(creatures[k], creatures[i]) <= j * j => InSeq(k, neighbors.creatures)
        /\ \A k \in 1..Len(food) :
              Dist2(food[k], creatures[i]) <= j * j => InSeq(k, neighbors.food)

\* C10 witness: the query returned an agent that is within the radius and
\* filed under another cell than the query point, and a food item that is
\* farther away than the radius (a proper superset).
C10_Witness ==
    /\ pc = "queried"
    /\ \E k \in 1..Len(creatures) :
          /\ Dist2(creatures[k], creatures[i]) <= j * j
          /\ GetCellCoords(creatures[k].x, creatures[k].y)
                 # GetCellCoords(creatures[i].x, creatures[i].y)
          /\ InSeq(k, neighbors.creatures)
    /\ \E k \in 1..Len(food) :
          Dist2(food[k], creatures[i]) > j * j /\ InSeq(k, neighbors.food)

====
